---- MODULE Spec2Model ----
(***************************************************************************)
(* Position monitoring and copy-trade execution of the Ostium bot:         *)
(* trading.py (compute_drawdown, compute_tp_sl_prices, TradingClient),      *)
(* main.py (build_positions_snapshot, monitor_drawdown, trade_executor)    *)
(* and alerts.py (TelegramBot.send_text, copy_trade_callback).             *)
(*                                                                         *)
(* Python floats are modelled as exact rationals [n, d] (d > 0, lowest     *)
(* terms); prices and leverages returned by the external sources are drawn *)
(* from small sets of integers.                                            *)
(***************************************************************************)
EXTENDS Integers, Sequences, FiniteSets, TLC

(***************************************************************************)
(* Bounds of the model and constants of the program                        *)
(***************************************************************************)

\* the position source returns at most this many positions in one pass
MaxPositions == 2

\* stop_after_attempt(3) of the retry decorator of get_price
MaxAttempts == 3

\* spot prices the external price source may answer
Prices == {-1, 0, 85, 90, 110}

\* executions of copy_trade_callback that may be in flight together
Execs == {"e1", "e2"}

AllowedChat == "chat"

(***************************************************************************)
(* Exact arithmetic standing for float arithmetic                          *)
(***************************************************************************)

Abs(x) == IF x < 0 THEN -x ELSE x

RECURSIVE GCD(_, _)
GCD(a, b) == IF b = 0 THEN a ELSE GCD(b, a % b)

\* the rational n/d in lowest terms, d > 0
Rat(n, d) ==
    LET s == IF d < 0 THEN -1 ELSE 1
        g == GCD(Abs(n), Abs(d))
    IN  [n |-> (s * n) \div g, d |-> (s * d) \div g]

RatInt(i) == [n |-> i, d |-> 1]

RatMul(a, b) == Rat(a.n * b.n, a.d * b.d)

RatLeq(a, b) == a.n * b.d <= b.n * a.d

RatLt(a, b) == a.n * b.d < b.n * a.d

Pow10(k) == CASE k = 0 -> 1 [] k = 2 -> 100 [] k = 4 -> 10000
              [] k = 6 -> 1000000 [] k = 8 -> 100000000

\* n/d (n >= 0, d > 0) to the nearest integer, ties to the even one
RoundHalfEvenNat(n, d) ==
    LET q == n \div d
        r == n % d
    IN  IF 2 * r < d THEN q
        ELSE IF 2 * r > d THEN q + 1
        ELSE IF q % 2 = 0 THEN q ELSE q + 1

\* Python's round(x, ndigits) on the rational x
round(x, ndigits) ==
    IF Pow10(ndigits) % x.d = 0
    THEN x
    ELSE LET m == RoundHalfEvenNat(Abs(x.n) * Pow10(ndigits), x.d)
         IN  Rat((IF x.n < 0 THEN -1 ELSE 1) * m, Pow10(ndigits))

(***************************************************************************)
(* trading.py: the pure calculators                                        *)
(***************************************************************************)

\* Python's None where a float is expected (no rational has d = 0)
None == [n |-> 0, d |-> 0]

IsNone(x) == x.d = 0

Zero == RatInt(0)

\* the loss of the price alone, the leverage left out
compute_drawdownUnleveraged(entry_price, current_price, is_long, leverage) ==
    IF entry_price <= 0 \/ leverage <= 0
    THEN Zero
    ELSE LET side    == IF is_long THEN 1 ELSE -1
             pnl_pct == Rat((current_price - entry_price) * 100 * side, entry_price)
             loss    == Rat(-pnl_pct.n, pnl_pct.d)
         IN  IF RatLt(Zero, loss) THEN loss ELSE Zero

\* max(0.0, -pnl_pct), pnl_pct = (current - entry) / entry * 100 * side * leverage
compute_drawdown(entry_price, current_price, is_long, leverage) ==
    IF entry_price <= 0 \/ leverage <= 0
    THEN Zero
    ELSE LET side    == IF is_long THEN 1 ELSE -1
             pnl_pct == Rat((current_price - entry_price) * 100 * side * leverage,
                            entry_price)
             loss    == Rat(-pnl_pct.n, pnl_pct.d)
         IN  IF RatLt(Zero, loss) THEN loss ELSE Zero

\* the target taken as a move of the price, the leverage left out
TargetPriceUnleveraged(entry_price, leverage, target, is_long) ==
    LET side == IF is_long THEN 1 ELSE -1
    IN  Rat(entry_price * (100 + side * target), 100)

\* entry_price * (1 + move) for a long, entry_price * (1 - move) for a short,
\* move = (target / 100) / leverage
TargetPrice(entry_price, leverage, target, is_long) ==
    LET side == IF is_long THEN 1 ELSE -1
    IN  Rat(entry_price * (100 * leverage + side * target), 100 * leverage)

\* the entry price handed back for every target of a degenerate input
compute_tp_sl_pricesEntryFallback(entry_price, leverage, tp_pnl_targets, sl_pnl, is_long) ==
    IF entry_price <= 0 \/ leverage <= 0
    THEN [tp |-> [i \in 1..Len(tp_pnl_targets) |-> RatInt(entry_price)], sl |-> None]
    ELSE [tp |-> [i \in 1..Len(tp_pnl_targets) |->
                    TargetPrice(entry_price, leverage, tp_pnl_targets[i], is_long)],
          sl |-> IF IsNone(sl_pnl) THEN None
                 ELSE TargetPrice(entry_price, leverage, sl_pnl.n, is_long)]

compute_tp_sl_prices(entry_price, leverage, tp_pnl_targets, sl_pnl, is_long) ==
    IF entry_price <= 0 \/ leverage <= 0
    THEN [tp |-> << >>, sl |-> None]
    ELSE [tp |-> [i \in 1..Len(tp_pnl_targets) |->
                    TargetPrice(entry_price, leverage, tp_pnl_targets[i], is_long)],
          sl |-> IF IsNone(sl_pnl) THEN None
                 ELSE TargetPrice(entry_price, leverage, sl_pnl.n, is_long)]

(***************************************************************************)
(* trading.py: TradingClient                                               *)
(***************************************************************************)

_price_precision(base, quote) ==
    IF quote = "USD"
    THEN IF base \in {"BTC", "ETH"} THEN 2
         ELSE IF base \in {"XAU", "XAG"} THEN 2
         ELSE 4
    ELSE 8

\* one attempt of the external price source raises `exc`
Raises(exc) == [ok |-> FALSE, price |-> 0, exc |-> exc]

\* one attempt of the external price source answers the price p
Answers(p) == [ok |-> TRUE, price |-> p, exc |-> "none"]

\* one attempt of the external price source: it raises, or answers a price
AttemptOutcomes == {Raises("PriceError")} \cup {Answers(p) : p \in Prices}

\* what the external price source does on each of the attempts get_price may make
AttemptSeqs == [1..MaxAttempts -> AttemptOutcomes]

\* an answer that is not positive taken as a failed attempt
RECURSIVE RetryFromUntilPositive(_, _)
RetryFromUntilPositive(outs, k) ==
    IF outs[k].ok /\ outs[k].price > 0
    THEN [raised |-> FALSE, value |-> outs[k].price, attempts |-> k, contacts |-> k,
          exc |-> "none"]
    ELSE IF k >= MaxAttempts
         THEN [raised |-> ~outs[k].ok, value |-> outs[k].price, attempts |-> k,
               contacts |-> k, exc |-> outs[k].exc]
         ELSE RetryFromUntilPositive(outs, k + 1)

\* the retry loop of the decorator: attempt k, retried only when it raised and
\* fewer than MaxAttempts attempts were made; the last exception is re-raised.
\* Each attempt of a live client calls the price source once.
RECURSIVE RetryFrom(_, _)
RetryFrom(outs, k) ==
    IF outs[k].ok
    THEN [raised |-> FALSE, value |-> outs[k].price, attempts |-> k, contacts |-> k,
          exc |-> "none"]
    ELSE IF k >= MaxAttempts
         THEN [raised |-> TRUE, value |-> 0, attempts |-> k, contacts |-> k,
               exc |-> outs[k].exc]
         ELSE RetryFrom(outs, k + 1)

\* the body run without its dry-run branch
get_priceAlwaysLive(live, outs) == RetryFrom(outs, 1)

\* get_price: without a live client the first attempt returns the sentinel 0
\* and the price source is not called
get_price(live, outs) ==
    IF ~live
    THEN [raised |-> FALSE, value |-> 0, attempts |-> 1, contacts |-> 0, exc |-> "none"]
    ELSE RetryFrom(outs, 1)

\* the pairs the pair source lists (fetch_pairs), by pair id
LivePairs == [i \in {1} |-> [base |-> "BTC", quote |-> "USD", symbol |-> <<"BTC", "-", "USD">>]]

\* pair indexes of the positions the position source may return; 2 is not listed
PairIndexes == {1, 2}

\* a wei-scaled value of a subgraph record: units * 10^decimals, or not a number
Wei(units) == [ok |-> TRUE, units |-> units]

Malformed == [ok |-> FALSE, units |-> 0]

\* float(value) / 10**decimals, 0.0 when the conversion raises
_from_wei(value) == IF value.ok THEN value.units ELSE 0

\* the open trades the subgraph may hold for a trader
RawTrades ==
    { [id |-> "A", pair |-> 1, isBuy |-> TRUE,  openPrice |-> Wei(100),  leverage |-> Wei(2)],
      [id |-> "B", pair |-> 1, isBuy |-> TRUE,  openPrice |-> Wei(50),   leverage |-> Wei(2)],
      [id |-> "S", pair |-> 2, isBuy |-> FALSE, openPrice |-> Wei(100),  leverage |-> Wei(3)],
      [id |-> "Z", pair |-> 1, isBuy |-> TRUE,  openPrice |-> Malformed, leverage |-> Wei(2)] }

RECURSIVE SeqsUpTo(_, _)
SeqsUpTo(S, n) ==
    IF n = 0 THEN {<< >>}
    ELSE LET shorter == SeqsUpTo(S, n - 1)
         IN  shorter \cup {Append(q, x) : q \in shorter, x \in S}

\* one call of the position source: it raises, or answers a list of open trades
FetchOutcomes ==
    {[ok |-> FALSE, trades |-> << >>]}
        \cup {[ok |-> TRUE, trades |-> q] : q \in SeqsUpTo(RawTrades, MaxPositions)}

(***************************************************************************)
(* State                                                                   *)
(***************************************************************************)

VARIABLES
    test_mode,      \* TradingClient.test_mode
    client,         \* TradingClient._client is not None
    cfg,            \* BotConfig
    target_wallet,  \* EnvSettings.target_wallet ("" when unset)
    mon_pc,         \* where monitor_drawdown stands
    positions,      \* build_positions_snapshot: positions collected from the traders
    snap_i,         \* build_positions_snapshot: index of the next position
    price_cache,    \* build_positions_snapshot: price_cache of the pass
    snapshot,       \* build_positions_snapshot: views built so far; the result
    mon_i,          \* monitor_drawdown: index of the next view of the alert loop
    alerts,         \* send_text calls of the pass, with their delivery
    mon_exc,        \* exception the pass caught ("none" when it caught none)
    fetch_log,      \* what fetch_open_trades did for each trader of the pass
    price_log,      \* get_price calls of the pass, by pair index
    ex,             \* the copy_trade_callback executions
    slippage,       \* the slippage percentage set on the SDK client
    call,           \* the last call of a calculator: its arguments and its result
    prev_pass       \* what the pass before this one was given and what it built

mode_vars == <<test_mode, client, cfg, target_wallet>>

mon_vars == <<mon_pc, positions, snap_i, price_cache, snapshot, mon_i, alerts,
              mon_exc, fetch_log, price_log>>

exec_vars == <<ex, slippage>>

calc_vars == <<call>>

hist_vars == <<prev_pass>>

vars == <<mode_vars, mon_vars, exec_vars, calc_vars, hist_vars>>

\* self.test_mode or not self._client
NoLiveClient == test_mode \/ ~client

\* what one call of get_price may return or raise, the price source answering
\* one of `seqs`
GetPriceResults(seqs) == {get_price(~NoLiveClient, outs) : outs \in seqs}

\* fetch_pairs: [] without a live client, else the pairs of the subgraph;
\* contacted: get_pairs of the subgraph was called
fetch_pairs ==
    IF NoLiveClient THEN [contacted |-> FALSE, pairs |-> << >>]
    ELSE [contacted |-> TRUE, pairs |-> LivePairs]

\* main: pair_map = {p["id"]: p for p in await fetch_pairs()}
pair_map == fetch_pairs.pairs

(***************************************************************************)
(* trading.py: fetch_open_trades                                           *)
(***************************************************************************)

\* one subgraph record normalized
NormalizeTrade(t, trader) ==
    [id          |-> t.id,
     trader      |-> trader,
     pair_index  |-> t.pair,
     is_long     |-> t.isBuy,
     entry_price |-> _from_wei(t.openPrice),
     leverage    |-> _from_wei(t.leverage)]

\* the position source asked whatever the mode of the client
fetch_open_tradesAlwaysLive(trader, outcome) ==
    IF trader = ""
    THEN [raised |-> FALSE, contacted |-> FALSE, trades |-> << >>]
    ELSE IF ~outcome.ok
    THEN [raised |-> TRUE, contacted |-> TRUE, trades |-> << >>]
    ELSE [raised |-> FALSE, contacted |-> TRUE,
          trades |-> [k \in 1..Len(outcome.trades) |->
                        NormalizeTrade(outcome.trades[k], trader)]]

\* fetch_open_trades(trader) when the position source answers `outcome`;
\* contacted: get_open_trades of the subgraph was called
fetch_open_trades(trader, outcome) ==
    IF trader = "" \/ NoLiveClient
    THEN [raised |-> FALSE, contacted |-> FALSE, trades |-> << >>]
    ELSE IF ~outcome.ok
    THEN [raised |-> TRUE, contacted |-> TRUE, trades |-> << >>]
    ELSE [raised |-> FALSE, contacted |-> TRUE,
          trades |-> [k \in 1..Len(outcome.trades) |->
                        NormalizeTrade(outcome.trades[k], trader)]]

(***************************************************************************)
(* main.py: build_positions_snapshot                                       *)
(***************************************************************************)

\* a wallet tracked although none is configured
TrackedTradersOrDefault == IF cfg.traders # << >> THEN cfg.traders ELSE <<"0xa">>

\* traders = cfg.traders or ([env.target_wallet] if env.target_wallet else [])
TrackedTraders ==
    IF cfg.traders # << >> THEN cfg.traders
    ELSE IF target_wallet # "" THEN <<target_wallet>>
    ELSE << >>

\* except Exception: continue -- what a trader's fetch adds to positions
FetchedTrades(fetched) == IF fetched.raised THEN << >> ELSE fetched.trades

\* the loop over the traders: positions.extend(trades), a failing fetch skipped
RECURSIVE CollectPositions(_, _)
CollectPositions(log, k) ==
    IF k > Len(log) THEN << >>
    ELSE FetchedTrades(log[k]) \o CollectPositions(log, k + 1)

TotalTrades(resp) ==
    LET RECURSIVE Sum(_)
        Sum(k) == IF k = 0 THEN 0 ELSE Len(resp[k].trades) + Sum(k - 1)
    IN  Sum(Len(resp))

\* pair_map.get(pos["pair_index"], {}) and the defaults of base, quote, symbol
PairInfo(pair_index) ==
    IF pair_index \in DOMAIN pair_map
    THEN pair_map[pair_index]
    ELSE [base |-> "UNKNOWN", quote |-> "USD", symbol |-> <<"UNKNOWN", "-", "USD">>]

\* the price of a position whose pair is not cached: the oracle's value, the
\* position's entry price when the oracle raised or answered <= 0
LookedUpPrice(pos, r) ==
    IF r.raised THEN pos.entry_price
    ELSE IF r.value <= 0 THEN pos.entry_price
    ELSE r.value

\* the cache never consulted
CacheMiss(cache, pair_index) == FALSE

\* if pos["pair_index"] in price_cache
CacheHit(cache, pair_index) == pair_index \in DOMAIN cache

\* the view of a position at a current price (entry_price # 0)
PositionView(pos, current_price) ==
    LET info    == PairInfo(pos.pair_index)
        side    == IF pos.is_long THEN 1 ELSE -1
        pnl_pct == Rat((current_price - pos.entry_price) * side * pos.leverage * 100,
                       pos.entry_price)
    IN  [id            |-> pos.id,
         trader        |-> pos.trader,
         pair_index    |-> pos.pair_index,
         pair          |-> info.symbol,
         is_long       |-> pos.is_long,
         drawdown      |-> round(compute_drawdown(pos.entry_price, current_price,
                                                  pos.is_long, pos.leverage), 2),
         pnl_pct       |-> round(pnl_pct, 2),
         entry_price   |-> pos.entry_price,
         current_price |-> current_price,
         leverage      |-> pos.leverage,
         base          |-> info.base,
         quote         |-> info.quote]

(***************************************************************************)
(* alerts.py: send_text; main.py: monitor_drawdown                         *)
(***************************************************************************)

\* send_text without its try/except
send_text_uncaught(delivered) == [raised |-> ~delivered, delivered |-> delivered]

\* send_text: the exception of send_message is caught and logged
send_text(delivered) == [raised |-> FALSE, delivered |-> delivered]

\* the band taken as open at its lower bound
InBandAboveMin(dd) == RatLt(RatInt(cfg.drawdown_min), dd) /\ RatLeq(dd, RatInt(cfg.drawdown_max))

\* cfg.drawdown_min <= dd <= cfg.drawdown_max
InBand(dd) == RatLeq(RatInt(cfg.drawdown_min), dd) /\ RatLeq(dd, RatInt(cfg.drawdown_max))

\* the exception left to end the task
MonitorOnExceptionStop == "terminated"

\* except Exception: logged, then asyncio.sleep of the same iteration
MonitorOnException == "sleep"

NoPriceLog == [p \in PairIndexes |-> << >>]

\* the state a pass starts from
PassStart ==
    /\ positions = << >>
    /\ snap_i = 1
    /\ price_cache = << >>
    /\ snapshot = << >>
    /\ mon_i = 1
    /\ alerts = << >>
    /\ mon_exc = "none"
    /\ fetch_log = << >>
    /\ price_log = NoPriceLog

\* lines 16-26: the traders' positions are fetched and collected
BuildSnapshotFetch ==
    /\ mon_pc = "build"
    /\ \E resp \in [1..Len(TrackedTraders) -> FetchOutcomes] :
          /\ TotalTrades(resp) <= MaxPositions
          /\ LET log == [k \in 1..Len(TrackedTraders) |->
                           fetch_open_trades(TrackedTraders[k], resp[k])]
                 got == CollectPositions(log, 1)
             IN  /\ fetch_log' = log
                 /\ positions' = got
                 /\ mon_pc' = IF got = << >> THEN "alerts" ELSE "positions"
    /\ UNCHANGED <<snap_i, price_cache, snapshot, mon_i, alerts, mon_exc, price_log>>
    /\ UNCHANGED <<mode_vars, exec_vars, calc_vars, hist_vars>>

\* the pass raised: monitor_drawdown catches it
PassRaises(exc) ==
    /\ mon_exc' = exc
    /\ mon_pc' = MonitorOnException
    /\ UNCHANGED <<snap_i, snapshot, mon_i>>

\* lines 30-69 for one position: its price, its view
BuildSnapshotPosition ==
    /\ mon_pc = "positions"
    /\ LET pos == positions[snap_i]
           Finish(current_price) ==
               IF pos.entry_price = 0
               THEN PassRaises("ZeroDivisionError")
               ELSE /\ snapshot' = Append(snapshot, PositionView(pos, current_price))
                    /\ snap_i' = snap_i + 1
                    /\ mon_pc' = IF snap_i = Len(positions) THEN "alerts" ELSE "positions"
                    /\ UNCHANGED <<mon_i, mon_exc>>
       IN  IF CacheHit(price_cache, pos.pair_index)
           THEN /\ Finish(price_cache[pos.pair_index])
                /\ UNCHANGED <<price_cache, price_log>>
           ELSE \E r \in GetPriceResults(AttemptSeqs) :
                   LET current_price == LookedUpPrice(pos, r)
                   IN  /\ price_cache' = (pos.pair_index :> current_price) @@ price_cache
                       /\ price_log' = [price_log EXCEPT ![pos.pair_index] =
                                           Append(@, [raised |-> r.raised, value |-> r.value,
                                                      contacted |-> r.contacts > 0])]
                       /\ Finish(current_price)
    /\ UNCHANGED <<positions, alerts, fetch_log>>
    /\ UNCHANGED <<mode_vars, exec_vars, calc_vars, hist_vars>>

\* lines 96-103 for one view: the alert of a view in the band
MonitorAlert ==
    /\ mon_pc = "alerts"
    /\ mon_i <= Len(snapshot)
    /\ IF InBand(snapshot[mon_i].drawdown)
       THEN \E delivered \in BOOLEAN :
               LET sent == send_text(delivered)
               IN  /\ alerts' = Append(alerts, [view |-> mon_i, delivered |-> sent.delivered])
                   /\ IF sent.raised
                      THEN PassRaises("TelegramError")
                      ELSE /\ mon_i' = mon_i + 1
                           /\ UNCHANGED <<mon_pc, mon_exc, snap_i, snapshot>>
       ELSE /\ mon_i' = mon_i + 1
            /\ UNCHANGED <<alerts, mon_pc, mon_exc, snap_i, snapshot>>
    /\ UNCHANGED <<positions, price_cache, fetch_log, price_log>>
    /\ UNCHANGED <<mode_vars, exec_vars, calc_vars, hist_vars>>

\* the loop over the views is over: line 106, asyncio.sleep
MonitorSleep ==
    /\ mon_pc = "alerts"
    /\ mon_i > Len(snapshot)
    /\ mon_pc' = "sleep"
    /\ UNCHANGED <<positions, snap_i, price_cache, snapshot, mon_i, alerts, mon_exc,
                   fetch_log, price_log>>
    /\ UNCHANGED <<mode_vars, exec_vars, calc_vars, hist_vars>>

\* the views of the pass before kept in the list
KeptSnapshot == snapshot

\* snapshot: list = [] at the start of build_positions_snapshot
FreshSnapshot == << >>

\* the locals of the next pass
NextPassLocals ==
    /\ mon_pc' = "build"
    /\ positions' = << >>
    /\ snap_i' = 1
    /\ price_cache' = << >>
    /\ snapshot' = FreshSnapshot
    /\ mon_i' = 1
    /\ alerts' = << >>
    /\ mon_exc' = "none"
    /\ fetch_log' = << >>
    /\ price_log' = NoPriceLog

\* the sleep returns: while True starts the next pass, whose locals are fresh
MonitorNextPass ==
    /\ mon_pc = "sleep"
    /\ NextPassLocals
    /\ UNCHANGED <<mode_vars, exec_vars, calc_vars, hist_vars>>

\* no pass before this one
NoPass == [returned |-> FALSE, fetch_log |-> << >>, price_log |-> NoPriceLog,
           snapshot |-> << >>]

\* build_positions_snapshot returned its list (it did not raise)
SnapshotReturned ==
    \/ mon_pc = "alerts"
    \/ mon_pc = "sleep" /\ mon_exc # "ZeroDivisionError"

\* the next pass starts, what the pass that ends was given and built noted
MonitorNextPassNoted ==
    /\ mon_pc = "sleep"
    /\ prev_pass' = [returned |-> SnapshotReturned, fetch_log |-> fetch_log,
                     price_log |-> price_log, snapshot |-> snapshot]
    /\ NextPassLocals
    /\ UNCHANGED <<mode_vars, exec_vars, calc_vars>>

MonitorNext ==
    \/ BuildSnapshotFetch
    \/ BuildSnapshotPosition
    \/ MonitorAlert
    \/ MonitorSleep
    \/ MonitorNextPass

\* the monitor, each pass compared with the pass before
TwoPassNext ==
    \/ BuildSnapshotFetch
    \/ BuildSnapshotPosition
    \/ MonitorAlert
    \/ MonitorSleep
    \/ MonitorNextPassNoted

(***************************************************************************)
(* main.py: trade_executor; trading.py: open_copy_trade;                   *)
(* alerts.py: copy_trade_callback                                          *)
(***************************************************************************)

\* pair_map.get(pair_index, {"base": "UNKNOWN", "quote": "USD", ...})
ExecutorPair(pair_index) ==
    IF pair_index \in DOMAIN pair_map
    THEN pair_map[pair_index]
    ELSE [base |-> "UNKNOWN", quote |-> "USD", symbol |-> <<pair_index>>]

\* ensure_usdc_approval raises when the client is live and has no SDK
ApprovalRaises == ~test_mode /\ ~client

\* the largest share given to the first leg
fractionsLargestFirst == <<Rat(34, 100), Rat(33, 100), Rat(33, 100)>>

\* fractions = [0.33, 0.33, 0.34]
fractions == <<Rat(33, 100), Rat(33, 100), Rat(34, 100)>>

\* every missing entry taken from the current price
RECURSIVE PadTpListWithPrice(_, _)
PadTpListWithPrice(tp_list, current_price) ==
    IF Len(tp_list) >= 3 THEN tp_list
    ELSE PadTpListWithPrice(Append(tp_list, RatInt(current_price)), current_price)

\* tp_list padded to three entries: its last entry repeated, the current price
\* when it is empty
RECURSIVE PadTpList(_, _)
PadTpList(tp_list, current_price) ==
    IF Len(tp_list) >= 3 THEN tp_list
    ELSE PadTpList(Append(tp_list, IF tp_list # << >> THEN tp_list[Len(tp_list)]
                                   ELSE RatInt(current_price)),
                   current_price)

\* round(x, prec) if x else 0
RoundedOrZero(x, prec) == IF IsNone(x) \/ x.n = 0 THEN Zero ELSE round(x, prec)

\* trades_params: one leg per (fraction, tp) of zip(fractions, tp_list)
BuildLegs(pair_index, base, quote, is_long, amount_in, leverage, tp_prices, sl_price, current_price) ==
    LET tp_list == PadTpList(tp_prices, current_price)
        prec    == _price_precision(base, quote)
    IN  [i \in 1..3 |->
           [collateral |-> round(RatMul(amount_in, fractions[i]), 6),
            asset_type |-> pair_index,
            direction  |-> is_long,
            leverage   |-> leverage,
            tp         |-> RoundedOrZero(tp_list[i], prec),
            sl         |-> RoundedOrZero(sl_price, prec)]]

\* slippage_bps / 100
SlippagePercentage(slippage_bps) == Rat(slippage_bps, 100)

\* an execution before its callback arrives
ExecFresh ==
    [pc |-> "idle", pair_index |-> 0, is_long |-> FALSE, slippage_bps |-> 0,
     tp_base_price |-> 0, tp_prices |-> << >>, sl_price |-> None,
     current_price |-> 0, trades_params |-> << >>, submitted |-> << >>,
     slippage_writes |-> << >>, price_calls |-> << >>,
     result |-> "none", message |-> "none", reported |-> "none", chat |-> "none"]

\* the execution returned `result` to copy_trade_callback, which reports it:
\* "Trade lance: {result}"
Returned(x, result) ==
    [x EXCEPT !.pc = "done", !.result = result, !.message = "launched",
              !.reported = result]

\* the exception logged and the trade reported as launched
RaisedButLaunched(x, exc) ==
    [x EXCEPT !.pc = "done", !.result = exc, !.message = "launched", !.reported = exc]

\* the execution raised `exc`: copy_trade_callback reports the failure:
\* "Echec trade: {exc}"
Raised(x, exc) ==
    [x EXCEPT !.pc = "done", !.result = exc, !.message = "failed", !.reported = exc]

\* chats a callback may come from; "" when the update has no effective chat
Chats == {AllowedChat, "other", ""}

\* every chat let through
_ensure_authAnyChat(chat_id) == TRUE

\* _ensure_auth: chat_id != self.allowed_chat_id -> False
_ensure_auth(chat_id) == chat_id = AllowedChat

\* the side of the callback data copy:<pair_index>:<side>
Sides == {"long", "short"}

\* values of slippage_bps an execution may be given
SlippageChoices == {50, 100}

\* copy_trade_callback, lines 92-104: the chat is checked, the executor called
CopyTradeCallback(e) ==
    /\ ex[e].pc = "idle"
    /\ \E chat \in Chats, pair_index \in PairIndexes,
          side \in Sides, slippage_bps \in SlippageChoices :
          ex' = [ex EXCEPT ![e] =
                   IF ~_ensure_auth(chat)
                   THEN [@ EXCEPT !.pc = "done", !.message = "unauthorized",
                                  !.chat = chat]
                   ELSE [@ EXCEPT !.pc = "executor", !.pair_index = pair_index,
                                  !.chat = chat,
                                  !.is_long = (side = "long"),
                                  !.slippage_bps = slippage_bps]]
    /\ UNCHANGED <<slippage, mode_vars, mon_vars, calc_vars, hist_vars>>

\* trade_executor, lines 134-148: the price, the TP/SL levels, the approval
TradeExecutor(e, seqs) ==
    /\ ex[e].pc = "executor"
    /\ \E r \in GetPriceResults(seqs) :
          LET x     == ex[e]
              pair  == ExecutorPair(x.pair_index)
              lv    == compute_tp_sl_prices(r.value, cfg.leverage, cfg.tp_pnl_targets,
                                            cfg.sl_pnl, x.is_long)
              y     == [x EXCEPT !.price_calls = Append(@, [raised |-> r.raised,
                                                            value |-> r.value,
                                                            contacted |-> r.contacts > 0])]
          IN  ex' = [ex EXCEPT ![e] =
                       IF r.raised THEN Raised(y, r.exc)
                       ELSE IF ApprovalRaises THEN Raised(y, "RuntimeError")
                       ELSE [y EXCEPT !.pc = "open_copy_trade",
                                      !.tp_base_price = r.value,
                                      !.tp_prices = IF cfg.copy_tp_sl THEN lv.tp ELSE << >>,
                                      !.sl_price = IF cfg.copy_tp_sl THEN lv.sl ELSE None]]
    /\ UNCHANGED <<slippage, mode_vars, mon_vars, calc_vars, hist_vars>>

\* the slippage handed over with each call instead of read from the client
PerformTradeOwnSlippage(x, k, slip, accepted) ==
    [x EXCEPT !.submitted = Append(@, [leg |-> k, params |-> x.trades_params[k],
                                       at_price |-> x.current_price,
                                       slippage |-> Rat(x.slippage_bps, 100),
                                       ok |-> accepted])]

\* the slippage set anew inside the loop, before each leg
PerformTradeSettingSlippage(x, k, slip, accepted) ==
    [x EXCEPT !.slippage_writes = Append(@, slip),
              !.submitted = Append(@, [leg |-> k, params |-> x.trades_params[k],
                                       at_price |-> x.current_price,
                                       slippage |-> slip, ok |-> accepted])]

\* perform_trade(params, at_price=current_price) of leg k: the sink takes the
\* leg under the slippage set on the client, and accepts it or raises
PerformTrade(x, k, slip, accepted) ==
    [x EXCEPT !.submitted = Append(@, [leg |-> k, params |-> x.trades_params[k],
                                       at_price |-> x.current_price,
                                       slippage |-> slip, ok |-> accepted])]

\* a failed leg skipped instead of raised
AfterLegKeepGoing(x, k, accepted) ==
    IF k = 3 THEN Returned(x, "submitted") ELSE [x EXCEPT !.pc = "legs"]

\* after the call of leg k: the error is raised, or the next leg is due, or
\* the receipts are returned
AfterLeg(x, k, accepted) ==
    IF ~accepted THEN Raised(x, "SubmissionError")
    ELSE IF k = 3 THEN Returned(x, "submitted")
    ELSE [x EXCEPT !.pc = "legs"]

\* the price check taken as "== 0"
PriceUnavailableZeroOnly(current_price) == current_price = 0

\* if current_price <= 0: raise ValueError
PriceUnavailable(current_price) == current_price <= 0

\* open_copy_trade, lines 267-304: the price check, the legs, the dry-run
\* result or the slippage setting and the first leg
OpenCopyTrade(e, seqs) ==
    /\ ex[e].pc = "open_copy_trade"
    /\ \E r \in GetPriceResults(seqs), accepted \in BOOLEAN :
          LET x    == ex[e]
              pair == ExecutorPair(x.pair_index)
              y    == [x EXCEPT !.price_calls = Append(@, [raised |-> r.raised,
                                                           value |-> r.value,
                                                           contacted |-> r.contacts > 0])]
              legs == BuildLegs(x.pair_index, pair.base, pair.quote, x.is_long,
                                cfg.amount_in, cfg.leverage, x.tp_prices, x.sl_price,
                                r.value)
              z    == [y EXCEPT !.current_price = r.value, !.trades_params = legs]
              pct  == SlippagePercentage(x.slippage_bps)
              w    == [z EXCEPT !.slippage_writes = Append(@, pct)]
          IN  IF r.raised
              THEN ex' = [ex EXCEPT ![e] = Raised(y, r.exc)] /\ UNCHANGED slippage
              ELSE IF PriceUnavailable(r.value)
              THEN ex' = [ex EXCEPT ![e] = Raised(y, "ValueError")] /\ UNCHANGED slippage
              ELSE IF NoLiveClient
              THEN ex' = [ex EXCEPT ![e] = Returned(z, "simulated")] /\ UNCHANGED slippage
              ELSE /\ slippage' = pct
                   /\ ex' = [ex EXCEPT ![e] =
                               AfterLeg(PerformTrade(w, 1, pct, accepted), 1, accepted)]
    /\ UNCHANGED <<mode_vars, mon_vars, calc_vars, hist_vars>>

\* open_copy_trade, lines 303-305: the next leg is submitted
PerformNextLeg(e) ==
    /\ ex[e].pc = "legs"
    /\ \E accepted \in BOOLEAN :
          LET x == ex[e]
              k == Len(x.submitted) + 1
          IN  ex' = [ex EXCEPT ![e] =
                       AfterLeg(PerformTrade(x, k, slippage, accepted), k, accepted)]
    /\ UNCHANGED <<slippage, mode_vars, mon_vars, calc_vars, hist_vars>>

ExecStep(e, seqs) ==
    \/ CopyTradeCallback(e)
    \/ TradeExecutor(e, seqs)
    \/ OpenCopyTrade(e, seqs)
    \/ PerformNextLeg(e)

(***************************************************************************)
(* Calls of the calculators and of get_price                                *)
(***************************************************************************)

\* no calculator called yet
NoCall == [fn |-> "none", args |-> << >>, out |-> << >>]

\* exceptions an attempt of get_price may raise: the source's, or the
\* ValueError of an answer of an unexpected format
PriceExceptions == {"PriceError", "ValueError"}

\* what the price source may do on the attempts of one call of get_price
PriceAttemptSeqs ==
    [1..MaxAttempts -> {Raises(exc) : exc \in PriceExceptions}
                          \cup {Answers(p) : p \in {-1, 0, 100}}]

\* await trading_client.get_price(base, quote)
CallGetPrice ==
    /\ call = NoCall
    /\ \E outs \in PriceAttemptSeqs :
          call' = [fn |-> "get_price", args |-> [outs |-> outs],
                   out |-> get_price(~NoLiveClient, outs)]
    /\ UNCHANGED <<mode_vars, mon_vars, exec_vars, hist_vars>>

EntryPrices == {-1, 0, 50, 100}

CurrentPrices == {90, 100, 110, 120}

Leverages == {-1, 0, 1, 2, 3, 5}

\* compute_drawdown(entry_price, current_price, is_long, leverage)
CallComputeDrawdown ==
    /\ call = NoCall
    /\ \E entry_price \in EntryPrices, current_price \in CurrentPrices,
          is_long \in BOOLEAN, leverage \in Leverages :
          call' = [fn |-> "compute_drawdown",
                   args |-> [entry_price |-> entry_price, current_price |-> current_price,
                             is_long |-> is_long, leverage |-> leverage],
                   out |-> compute_drawdown(entry_price, current_price, is_long, leverage)]
    /\ UNCHANGED <<mode_vars, mon_vars, exec_vars, hist_vars>>

\* lists of TP targets, in PnL percent: unsorted ones and repeated ones too
TargetLists == SeqsUpTo({5, 10}, 2) \cup {<<10, 5, 10>>, <<5, 10, 15, 20>>}

SlTargets == {None, RatInt(-10), RatInt(-20)}

\* compute_tp_sl_prices(entry_price, leverage, tp_pnl_targets, sl_pnl, is_long)
CallComputeTpSlPrices ==
    /\ call = NoCall
    /\ \E entry_price \in EntryPrices, leverage \in Leverages,
          tp_pnl_targets \in TargetLists, sl_pnl \in SlTargets, is_long \in BOOLEAN :
          call' = [fn |-> "compute_tp_sl_prices",
                   args |-> [entry_price |-> entry_price, leverage |-> leverage,
                             tp_pnl_targets |-> tp_pnl_targets, sl_pnl |-> sl_pnl,
                             is_long |-> is_long],
                   out |-> compute_tp_sl_prices(entry_price, leverage, tp_pnl_targets,
                                                sl_pnl, is_long)]
    /\ UNCHANGED <<mode_vars, mon_vars, exec_vars, hist_vars>>

\* the caller has taken the result: the next call may be made
CallReturns ==
    /\ call # NoCall
    /\ call' = NoCall
    /\ UNCHANGED <<mode_vars, mon_vars, exec_vars, hist_vars>>

CalcNext ==
    \/ CallGetPrice
    \/ CallComputeDrawdown
    \/ CallComputeTpSlPrices
    \/ CallReturns

(***************************************************************************)
(* Specifications                                                          *)
(***************************************************************************)

\* TradingClient.__init__: no SDK client in test mode, or when the SDK failed
Modes == {m \in [test_mode : BOOLEAN, client : BOOLEAN] : m.test_mode => ~m.client}

\* config.json as BotConfig accepts it
Configs ==
    [drawdown_min   : {20},
     drawdown_max   : {30},
     amount_in      : {RatInt(300), Rat(1, 100000)},
     leverage       : {2, 3},
     tp_pnl_targets : {<< >>, <<5>>, <<5, 10>>, <<5, 10, 15, 20>>},
     sl_pnl         : {RatInt(-10)},
     slippage_bps   : {50},
     traders        : {<< >>, <<"0xa", "0xb">>},
     copy_tp_sl     : BOOLEAN]

ModeInit ==
    /\ \E m \in Modes : test_mode = m.test_mode /\ client = m.client
    /\ cfg \in Configs
    /\ target_wallet \in {"", "0xa"}

\* main: the monitor task is created, no callback has arrived
Init ==
    /\ ModeInit
    /\ mon_pc = "build"
    /\ PassStart
    /\ ex = [e \in Execs |-> ExecFresh]
    /\ slippage = None
    /\ call = NoCall
    /\ prev_pass = NoPass

\* the copy-trade settings of the sample config.json
SampleTradeConfig ==
    /\ cfg.amount_in = RatInt(300)
    /\ cfg.leverage = 2
    /\ cfg.tp_pnl_targets = <<5, 10>>

\* the drawdown monitor alone
MonitorInit == Init /\ cfg.copy_tp_sl /\ SampleTradeConfig

MonitorSpec == MonitorInit /\ [][MonitorNext]_vars

\* a live client and one trader, the target wallet
TwoPassInit == MonitorInit /\ ~NoLiveClient /\ cfg.traders = << >> /\ target_wallet = "0xa"

TwoPassSpec == TwoPassInit /\ [][TwoPassNext]_vars

\* spot prices the price source may answer to a copy trade
TradePrices == {-1, 0, 100, 200}

AttemptSeqsOf(prices) ==
    [1..MaxAttempts -> {Raises("PriceError")} \cup {Answers(p) : p \in prices}]

ExecInit == Init /\ cfg.traders = << >> /\ target_wallet = ""

\* one copy-trade execution
\* what the price source may do on the attempts of a lookup of a copy trade
TradeAttemptSeqs == AttemptSeqsOf(TradePrices)

SingleExec == {"e1"}

ExecNext == \E e \in SingleExec : ExecStep(e, TradeAttemptSeqs)

ExecSpec == ExecInit /\ [][ExecNext]_vars

\* copy-trade executions in flight together
RaceAttemptSeqs == AttemptSeqsOf({0, 100})

RaceNext == \E e \in Execs : ExecStep(e, RaceAttemptSeqs)

RaceInit == ExecInit /\ SampleTradeConfig

RaceSpec == RaceInit /\ [][RaceNext]_vars

\* the monitor and one execution side by side: test mode with every config,
\* a live client with the sample config and one tracked trader
BothModesInit ==
    /\ Init
    /\ \/ test_mode
       \/ /\ client /\ cfg.copy_tp_sl /\ SampleTradeConfig
          /\ cfg.traders = << >> /\ target_wallet = "0xa"

BothModesNext ==
    \/ MonitorNext
    \/ ExecNext

BothModesSpec == BothModesInit /\ [][BothModesNext]_vars

Next ==
    \/ MonitorNext
    \/ \E e \in Execs : ExecStep(e, TradeAttemptSeqs)
    \/ CalcNext

Spec == Init /\ [][Next]_vars

\* the calculators and get_price called on their own
CalcInit == ExecInit /\ cfg.copy_tp_sl /\ SampleTradeConfig

CalcSpec == CalcInit /\ [][CalcNext]_vars

\* the drawdown monitor, its task scheduled by the event loop again and again
\* and every awaited call returning or raising
MonitorFairSpec == MonitorSpec /\ WF_vars(MonitorNext)

(***************************************************************************)
(* Properties                                                              *)
(***************************************************************************)

\* the execution of a callback of the allowed chat is over
Executed(e) == ex[e].pc = "done" /\ ex[e].message # "unauthorized"

\* C1: in dry-run mode (test_mode on, or no SDK client) a copy trade returns a
\* result of status "simulated" holding the three computed legs, and
\* perform_trade is never called
C1_DryRunSimulated ==
    \A e \in Execs :
        (NoLiveClient /\ Executed(e)) =>
            /\ ex[e].result = "simulated"
            /\ Len(ex[e].trades_params) = 3
            /\ ex[e].submitted = << >>

\* a lookup of the execution raised, or open_copy_trade's price was <= 0
PriceUnresolved(x) ==
    LET n == Len(x.price_calls)
    IN  /\ n >= 1
        /\ \/ x.price_calls[n].raised
           \/ n = 2 /\ x.price_calls[2].value <= 0

LookupFailed(pair_index) ==
    /\ price_log[pair_index] # << >>
    /\ \/ price_log[pair_index][1].raised
       \/ price_log[pair_index][1].value <= 0

\* C3: every view whose pair's price lookup failed or answered <= 0 has its
\* own entry price as current price, and drawdown 0
C3_FallbackIsOwnEntryPrice ==
    \A j \in 1..Len(snapshot) :
        LookupFailed(snapshot[j].pair_index) =>
            /\ snapshot[j].current_price = snapshot[j].entry_price
            /\ snapshot[j].drawdown = Zero

\* C4: the legs of a live execution are submitted one at a time in leg order;
\* when leg k fails, legs 1..k-1 stay submitted, no later leg is submitted and
\* the failure is raised to the caller
C4_SequentialNoRollback ==
    \A e \in Execs :
        LET x == ex[e]
            s == x.submitted
            n == Len(s)
        IN  /\ n <= 3
            /\ \A k \in 1..n : s[k].leg = k /\ s[k].params = x.trades_params[k]
            /\ \A k \in 1..(n - 1) : s[k].ok
            /\ (n >= 1 /\ ~s[n].ok) =>
                  x.pc = "done" /\ x.result = "SubmissionError" /\ x.message = "failed"
            /\ x.result = "SubmissionError" => n >= 1 /\ ~s[n].ok
            /\ x.result = "submitted" => n = 3 /\ s[3].ok
            /\ x.pc = "legs" => n \in 1..2 /\ s[n].ok

C4_Witness ==
    \E e \in Execs :
        LET s == ex[e].submitted
        IN  /\ Len(s) = 2
            /\ s[1].ok
            /\ ~s[2].ok
            /\ ex[e].pc = "done"
            /\ ex[e].result = "SubmissionError"

C6_MonitorNeverStops ==
    /\ [](mon_pc \in {"build", "positions", "alerts", "sleep"})
    /\ [](mon_exc # "none" => mon_pc = "sleep")
    /\ (mon_exc # "none") ~> (mon_pc = "build")

C6_Witness == mon_exc = "ZeroDivisionError" /\ mon_pc = "sleep"

\* min <= d <= max, both bounds included
WithinBand(d) == cfg.drawdown_min * d.d <= d.n /\ d.n <= cfg.drawdown_max * d.d

\* the views before view `upto` whose drawdown is within the band, in order
ViewsWithinBand(upto) ==
    LET Test(j) == WithinBand(snapshot[j].drawdown)
    IN  SelectSeq([j \in 1..(upto - 1) |-> j], Test)

AlertedViews == [k \in 1..Len(alerts) |-> alerts[k].view]

\* C7: in a pass whose snapshot succeeded, one alert is dispatched for every
\* view with min <= drawdown <= max, bounds included, and none for another view
C7_OneAlertPerViewInBand ==
    (mon_pc \in {"alerts", "sleep"} /\ mon_exc = "none") =>
        AlertedViews = ViewsWithinBand(mon_i)

C7_Witness ==
    /\ mon_pc = "sleep"
    /\ mon_exc = "none"
    /\ Len(snapshot) = 2
    /\ AlertedViews = <<1, 2>>
    /\ \E j \in 1..2 : snapshot[j].drawdown = RatInt(cfg.drawdown_min)
    /\ \E j \in 1..2 : snapshot[j].drawdown = RatInt(cfg.drawdown_max)

\* C8: an alert that cannot be sent stops nothing: the views after it that are
\* within the band still get their alert, and the pass goes on to its sleep
C8_AlertFailureIsolated ==
    /\ mon_exc # "TelegramError"
    /\ \A k \in 1..Len(alerts) :
          ~alerts[k].delivered =>
              /\ mon_pc \in {"alerts", "sleep"}
              /\ \A j \in (alerts[k].view + 1)..(mon_i - 1) :
                    WithinBand(snapshot[j].drawdown) =>
                        \E m \in (k + 1)..Len(alerts) : alerts[m].view = j

C8_Witness ==
    /\ mon_pc = "sleep"
    /\ Len(alerts) = 2
    /\ ~alerts[1].delivered
    /\ alerts[2].view = 2

\* the trades of the traders whose fetch did not raise, in trader order
RECURSIVE TradesOfSucceeded(_)
TradesOfSucceeded(k) ==
    IF k > Len(fetch_log) THEN << >>
    ELSE (IF fetch_log[k].raised THEN << >> ELSE fetch_log[k].trades)
             \o TradesOfSucceeded(k + 1)

\* C9: when the fetch of a trader fails, the snapshot is still built, of the
\* positions of the traders whose fetch succeeded, in trader order
C9_SnapshotBuiltDespiteFetchFailure ==
    (mon_pc = "sleep" /\ \E k \in 1..Len(fetch_log) : fetch_log[k].raised) =>
        /\ mon_exc = "none"
        /\ Len(snapshot) = Len(TradesOfSucceeded(1))
        /\ \A j \in 1..Len(snapshot) :
              /\ snapshot[j].id = TradesOfSucceeded(1)[j].id
              /\ snapshot[j].trader = TradesOfSucceeded(1)[j].trader

\* C10: in a pass get_price is called at most once for a pair index, whatever
\* it answered, and a pass starts with an empty cache
C10_OneLookupPerPair ==
    /\ \A p \in PairIndexes : Len(price_log[p]) <= 1
    /\ DOMAIN price_cache = {p \in PairIndexes : price_log[p] # << >>}
    /\ mon_pc = "build" => price_cache = << >>

C10_Witness ==
    /\ Len(snapshot) = 2
    /\ snapshot[1].pair_index = snapshot[2].pair_index
    /\ LookupFailed(snapshot[1].pair_index)
    /\ Len(price_log[snapshot[1].pair_index]) = 1


\* the attempts of the price source were all failures
AllAttemptsRaised(outs) == \A j \in 1..3 : ~outs[j].ok

\* C11: a call of get_price makes at most 3 attempts; an attempt follows only
\* attempts that raised; the first attempt that returns a value, a value <= 0
\* included, ends the call with that value; when the third attempt raises too,
\* the call raises the exception of that last attempt
C11_AtMostThreeAttempts ==
    (call.fn = "get_price" /\ ~NoLiveClient) =>
        LET outs == call.args.outs
            r    == call.out
        IN  /\ r.attempts \in 1..3
            /\ \A j \in 1..(r.attempts - 1) : ~outs[j].ok
            /\ \A j \in 1..3 : outs[j].ok => r.attempts <= j
            /\ outs[r.attempts].ok =>
                   ~r.raised /\ r.value = outs[r.attempts].price
            /\ r.raised <=> AllAttemptsRaised(outs)
            /\ r.raised => r.attempts = 3 /\ r.exc = outs[3].exc

\* three attempts raised, the last one another exception than the first
C11_Witness ==
    /\ call.fn = "get_price" /\ ~NoLiveClient
    /\ call.out.raised /\ call.out.attempts = 3
    /\ call.args.outs[1].exc # call.args.outs[3].exc

\* C12: without a live client (test mode on, or no SDK client) get_price
\* returns 0 from its first attempt and does not call the price source
C12_DryRunPriceIsSentinel ==
    (call.fn = "get_price" /\ NoLiveClient) =>
        /\ ~call.out.raised
        /\ call.out.value = 0
        /\ call.out.attempts = 1
        /\ call.out.contacts = 0

\* get_price called without a live client while the source would answer 100
C12_Witness ==
    /\ call.fn = "get_price" /\ NoLiveClient
    /\ call.args.outs[1] = Answers(100)


\* the share of the amount leg i is given, in percent
SharePercent == <<33, 33, 34>>

\* the collateral c is amount * percent / 100 exactly
IsShare(c, amount, percent) == c = RatMul(amount, Rat(percent, 100))

\* the collateral c is the multiple of 0.000001 nearest to amount * percent / 100
IsRoundedShare(c, amount, percent) ==
    LET t == RatMul(amount, Rat(percent, 100))
        k == c.n * (1000000 \div c.d)
    IN  /\ 1000000 % c.d = 0
        /\ 2 * Abs(k * t.d - t.n * 1000000) <= t.d

\* a + b + c
RatSum3(a, b, c) == Rat(a.n * b.d * c.d + b.n * a.d * c.d + c.n * a.d * b.d, a.d * b.d * c.d)

\* the execution e built its three legs
BuiltLegs(e) == ex[e].trades_params # << >>

\* C13, as claimed: the legs of an execution carry 33%, 33% and 34% of the
\* amount, in that order, and their collaterals add up to the amount; the
\* legs of amount 300 carry 99, 99 and 102
C13_SplitSumsToAmount ==
    \A e \in Execs : BuiltLegs(e) =>
        LET legs == ex[e].trades_params
        IN  /\ \A i \in 1..3 : IsShare(legs[i].collateral, cfg.amount_in, SharePercent[i])
            /\ RatSum3(legs[1].collateral, legs[2].collateral, legs[3].collateral)
                   = cfg.amount_in
            /\ cfg.amount_in = RatInt(300) =>
                   /\ legs[1].collateral = RatInt(99)
                   /\ legs[2].collateral = RatInt(99)
                   /\ legs[3].collateral = RatInt(102)

\* C13, amended: leg i carries 33%, 33% and 34% of the amount, in that order,
\* each rounded to 6 decimals; the collaterals add up to the amount when the
\* amount has at most 4 decimals, the shares then being exact; the legs of
\* amount 300 carry 99, 99 and 102
C13_SplitRoundedToSixDecimals ==
    \A e \in Execs : BuiltLegs(e) =>
        LET legs == ex[e].trades_params
        IN  /\ Len(legs) = 3
            /\ \A i \in 1..3 :
                   IsRoundedShare(legs[i].collateral, cfg.amount_in, SharePercent[i])
            /\ 10000 % cfg.amount_in.d = 0 =>
                   /\ \A i \in 1..3 :
                          IsShare(legs[i].collateral, cfg.amount_in, SharePercent[i])
                   /\ RatSum3(legs[1].collateral, legs[2].collateral, legs[3].collateral)
                          = cfg.amount_in
            /\ cfg.amount_in = RatInt(300) =>
                   /\ legs[1].collateral = RatInt(99)
                   /\ legs[2].collateral = RatInt(99)
                   /\ legs[3].collateral = RatInt(102)

\* the three legs of amount 300 were submitted
C13_Witness ==
    /\ cfg.amount_in = RatInt(300)
    /\ Len(ex["e1"].submitted) = 3
    /\ ex["e1"].submitted[3].params.collateral = RatInt(102)


\* c is the multiple of 10^-digits nearest to t
IsRoundedTo(c, t, digits) ==
    LET k == c.n * (Pow10(digits) \div c.d)
    IN  /\ Pow10(digits) % c.d = 0
        /\ 2 * Abs(k * t.d - t.n * Pow10(digits)) <= t.d

\* decimals of the prices of a pair: 2 for the listed BTC-USD, 4 for a pair
\* that is not listed
PriceDecimals(pair_index) == IF pair_index \in DOMAIN pair_map THEN 2 ELSE 4

\* C14: an execution builds three legs whatever the number of TP prices: leg
\* i carries the i-th TP price, at the precision of the pair; a list of one or
\* two prices is continued with its last price; a fourth price is left out;
\* the three legs carry the same SL price, and the leverage, the direction and
\* the pair index of the execution
C14_ThreeLegsPaddedTargets ==
    \A e \in Execs : BuiltLegs(e) =>
        LET x      == ex[e]
            legs   == x.trades_params
            tps    == x.tp_prices
            digits == PriceDecimals(x.pair_index)
        IN  /\ Len(legs) = 3
            /\ \A i \in 1..3 :
                   /\ i <= Len(tps) => IsRoundedTo(legs[i].tp, tps[i], digits)
                   /\ (tps # << >> /\ i > Len(tps)) =>
                          IsRoundedTo(legs[i].tp, tps[Len(tps)], digits)
                   /\ legs[i].sl = legs[1].sl
                   /\ legs[i].leverage = cfg.leverage
                   /\ legs[i].direction = x.is_long
                   /\ legs[i].asset_type = x.pair_index
            /\ IF IsNone(x.sl_price) THEN legs[1].sl = Zero
               ELSE IsRoundedTo(legs[1].sl, x.sl_price, digits)

\* three legs submitted from a single TP price that rounding changes
C14_Witness ==
    /\ Len(ex["e1"].tp_prices) = 1
    /\ Len(ex["e1"].submitted) = 3
    /\ ex["e1"].submitted[3].params.tp # ex["e1"].tp_prices[1]


\* the legs a live client submits for the inputs of the execution x at the
\* spot price current_price
LiveLegs(x, current_price) ==
    LET pair == ExecutorPair(x.pair_index)
    IN  BuildLegs(x.pair_index, pair.base, pair.quote, x.is_long, cfg.amount_in,
                  cfg.leverage, x.tp_prices, x.sl_price, current_price)

\* C15: the result of an execution in dry-run mode carries the legs a live
\* client submits for the same inputs at the same spot price; only the
\* submission differs
C15_SimulatedLegsAsLive ==
    \A e \in Execs :
        (NoLiveClient /\ Executed(e)) =>
            /\ ex[e].trades_params = LiveLegs(ex[e], ex[e].current_price)
            /\ ex[e].submitted = << >>


\* no trader in the config and no target wallet in the environment
NobodyTracked == cfg.traders = << >> /\ target_wallet = ""

\* C16: with no trader configured and no target wallet, a pass of the monitor
\* calls neither the position source nor the price source, its snapshot is
\* empty and it sends no alert
C16_NobodyTrackedNothingDone ==
    NobodyTracked =>
        /\ fetch_log = << >>
        /\ \A p \in PairIndexes : price_log[p] = << >>
        /\ positions = << >>
        /\ snapshot = << >>
        /\ alerts = << >>
        /\ mon_exc = "none"

\* a pass is over with nobody tracked, the client being live
C16_Witness == NobodyTracked /\ ~NoLiveClient /\ mon_pc = "sleep"


\* the symbol PAIR-<index>
PlaceholderSymbol(pair_index) == <<"PAIR", "-", ToString(pair_index)>>

\* pair indexes the pair source does not list
UnlistedPairs == {p \in {2, 3} : p \notin DOMAIN pair_map}

\* C17: the view of a position whose pair index is not in the pair map
\* carries a symbol made from that index, PAIR-<index>, so that two pair
\* indexes that are not listed get two symbols
C17_UnlistedPairSymbolFromIndex ==
    \A j \in 1..Len(snapshot) :
        snapshot[j].pair_index \notin DOMAIN pair_map =>
            /\ snapshot[j].pair = PlaceholderSymbol(snapshot[j].pair_index)
            /\ \A q \in UnlistedPairs \ {snapshot[j].pair_index} :
                   snapshot[j].pair # PairInfo(q).symbol


\* the exception the steps of the execution x raised, "none" when none did:
\* taken from the lookups made, the mode of the client and the legs submitted
StepRaised(x) ==
    LET n == Len(x.price_calls)
    IN  IF n >= 1 /\ x.price_calls[n].raised THEN "PriceError"
        ELSE IF n = 1 /\ ApprovalRaises THEN "RuntimeError"
        ELSE IF n = 2 /\ x.price_calls[2].value <= 0 THEN "ValueError"
        ELSE IF \E k \in 1..Len(x.submitted) : ~x.submitted[k].ok THEN "SubmissionError"
        ELSE "none"

\* C18: an execution of the allowed chat in which a step raised (a lookup,
\* the approval, the price check, a leg) is reported as failed, the message
\* naming that exception; an execution reported as launched is one in which
\* no step raised
C18_FailureAlwaysReported ==
    \A e \in Execs : Executed(e) =>
        LET x == ex[e]
        IN  /\ StepRaised(x) # "none" =>
                   x.message = "failed" /\ x.reported = StepRaised(x)
            /\ x.message = "launched" =>
                   /\ StepRaised(x) = "none"
                   /\ \A k \in 1..Len(x.price_calls) : ~x.price_calls[k].raised
                   /\ \A k \in 1..Len(x.submitted) : x.submitted[k].ok

\* the second leg was rejected and the failure reported
C18_Witness ==
    /\ Executed("e1")
    /\ Len(ex["e1"].submitted) = 2
    /\ ~ex["e1"].submitted[2].ok
    /\ ex["e1"].message = "failed"
    /\ ex["e1"].reported = "SubmissionError"


\* the position loses money at the current price
Losing(entry_price, current_price, is_long) ==
    IF is_long THEN current_price < entry_price ELSE current_price > entry_price

\* the arguments of the last call of compute_drawdown are these
DrawdownCallOf(entry_price, current_price, is_long, leverage) ==
    /\ call.fn = "compute_drawdown"
    /\ call.args = [entry_price |-> entry_price, current_price |-> current_price,
                    is_long |-> is_long, leverage |-> leverage]

\* C19: for a positive entry price and a positive leverage compute_drawdown
\* is never negative, is 0 when the position has not moved or is in profit,
\* and is otherwise the loss in percent of the margin,
\* |current - entry| / entry * 100 * leverage; 100 -> 90 long x2 gives 20,
\* 100 -> 110 short x3 gives 30, 100 -> 120 long x5 gives 0
C19_DrawdownIsLeveragedLoss ==
    /\ (call.fn = "compute_drawdown" /\ call.args.entry_price > 0
            /\ call.args.leverage > 0) =>
           LET a  == call.args
               dd == call.out
           IN  /\ dd.d > 0 /\ dd.n >= 0
               /\ ~Losing(a.entry_price, a.current_price, a.is_long) => dd = Zero
               /\ Losing(a.entry_price, a.current_price, a.is_long) =>
                      dd.n * a.entry_price
                         = dd.d * Abs(a.current_price - a.entry_price) * 100 * a.leverage
    /\ DrawdownCallOf(100, 90, TRUE, 2) => call.out = RatInt(20)
    /\ DrawdownCallOf(100, 110, FALSE, 3) => call.out = RatInt(30)
    /\ DrawdownCallOf(100, 120, TRUE, 5) => call.out = RatInt(0)

\* the short of the tests: entry 100, price 110, leverage 3
C19_Witness == DrawdownCallOf(100, 110, FALSE, 3) /\ call.out = RatInt(30)

\* p is entry_price * (1 + (target / 100) / leverage) for a long, the sign
\* reversed for a short
IsTargetPrice(p, entry_price, leverage, target, is_long) ==
    /\ p.d > 0
    /\ p.n * 100 * leverage
          = p.d * entry_price * (100 * leverage + (IF is_long THEN target ELSE -target))

DegenerateCall == call.args.entry_price <= 0 \/ call.args.leverage <= 0

\* C21: whenever entry_price <= 0 or leverage <= 0, compute_drawdown returns 0
\* and compute_tp_sl_prices returns an empty TP list and no SL, whatever the
\* current price, the direction, the targets and the SL target
C21_DegenerateInputsNoOp ==
    /\ (call.fn = "compute_drawdown" /\ DegenerateCall) => call.out = Zero
    /\ (call.fn = "compute_tp_sl_prices" /\ DegenerateCall) =>
           call.out = [tp |-> << >>, sl |-> None]

\* compute_tp_sl_prices called with leverage 0, four targets and a SL target
C21_Witness ==
    /\ call.fn = "compute_tp_sl_prices"
    /\ call.args.entry_price = 100 /\ call.args.leverage = 0
    /\ Len(call.args.tp_pnl_targets) = 4 /\ ~IsNone(call.args.sl_pnl)
    /\ call.out.tp = << >>


\* the pass was given what the pass before was given: the same answers of
\* the position source for the same traders, the same answers of the price
\* source for the same pairs
SameAsPassBefore ==
    /\ prev_pass.returned
    /\ SnapshotReturned
    /\ fetch_log = prev_pass.fetch_log
    /\ price_log = prev_pass.price_log

\* C22: a pass given the traders, the positions, the pair map and the prices
\* of the pass before returns the same list of views, in the same order and
\* with the same fields: nothing of a pass is left for the next one
C22_SnapshotIdempotent == SameAsPassBefore => snapshot = prev_pass.snapshot

\* two passes in a row with two views each, one of them priced by fallback
C22_Witness ==
    /\ SameAsPassBefore
    /\ mon_pc = "sleep"
    /\ Len(snapshot) = 2
    /\ snapshot[1].pair_index # snapshot[2].pair_index
    /\ snapshot = prev_pass.snapshot


\* a position whose openPrice could not be read: _from_wei answered 0.0
IsMalformed(pos) == pos.entry_price = 0

\* C23: a pass with a malformed position (entry_price = 0) among the fetched
\* ones does not raise, and the snapshot it returns has the views of the
\* other positions
C23_MalformedPositionNeverCrashes ==
    (mon_pc \in {"alerts", "sleep"} /\ \E k \in 1..Len(positions) : IsMalformed(positions[k])) =>
        /\ mon_exc # "ZeroDivisionError"
        /\ \A k \in 1..Len(positions) :
              ~IsMalformed(positions[k]) =>
                  \E j \in 1..Len(snapshot) : snapshot[j].id = positions[k].id


\* the last price lookup of the execution answered a price above 0
PriceCheckPassed(x) ==
    /\ x.price_calls # << >>
    /\ ~x.price_calls[Len(x.price_calls)].raised
    /\ x.price_calls[Len(x.price_calls)].value > 0
    /\ x.current_price = x.price_calls[Len(x.price_calls)].value

\* C24: an execution writes the shared slippage setting at most once; the
\* value is slippage_bps / 100; the write comes after the price check passed
\* and the first leg already goes out under it; an execution that submitted
\* a leg has written exactly once, however many legs followed
C24_SlippageWrittenOnce ==
    \A e \in Execs :
        LET x == ex[e]
        IN  /\ Len(x.slippage_writes) <= 1
            /\ x.slippage_writes # << >> =>
                   /\ x.slippage_writes[1] = Rat(x.slippage_bps, 100)
                   /\ PriceCheckPassed(x)
                   /\ x.submitted # << >>
                   /\ x.submitted[1].slippage = x.slippage_writes[1]
            /\ x.submitted # << >> => Len(x.slippage_writes) = 1

\* three legs submitted after one write of 1/2 percent
C24_Witness ==
    \E e \in Execs :
        /\ Len(ex[e].submitted) = 3
        /\ ex[e].result = "submitted"
        /\ ex[e].slippage_bps = 50
        /\ ex[e].slippage_writes = <<Rat(1, 2)>>


\* C25: with copy_tp_sl off in the configuration, each of the three legs an
\* execution builds has tp = 0 and sl = 0
C25_NoTpSlWhenDisabled ==
    \A e \in Execs :
        (~cfg.copy_tp_sl /\ ex[e].trades_params # << >>) =>
            \A i \in 1..3 :
                /\ ex[e].trades_params[i].tp = Zero
                /\ ex[e].trades_params[i].sl = Zero


\* C26: an execution that built its legs used one price throughout: the
\* price the TP and SL levels were derived from is the price that was checked
\* to be above 0, the at_price of every submitted leg and the current_price
\* of the result
C26_SinglePriceThroughout ==
    \A e \in Execs :
        LET x == ex[e]
        IN  x.trades_params # << >> =>
                /\ x.tp_base_price = x.current_price
                /\ x.current_price > 0
                /\ \A k \in 1..Len(x.submitted) : x.submitted[k].at_price = x.current_price


\* C27: a callback from a chat other than the allowed one starts nothing:
\* it is answered "unauthorized" and its execution has no price lookup, no
\* legs, no slippage write and no submission; the shared slippage setting is
\* only ever written by an execution of the allowed chat
C27_OnlyAllowedChatExecutes ==
    /\ \A e \in Execs :
          ex[e].chat \notin {"none", AllowedChat} =>
              /\ ex[e].pc = "done"
              /\ ex[e].message = "unauthorized"
              /\ ex[e].result = "none"
              /\ ex[e].price_calls = << >>
              /\ ex[e].trades_params = << >>
              /\ ex[e].slippage_writes = << >>
              /\ ex[e].submitted = << >>
    /\ slippage # None => \E e \in Execs : ex[e].chat = AllowedChat

\* a callback from another chat was turned away
C27_Witness ==
    \E e \in Execs :
        /\ ex[e].chat = "other"
        /\ ex[e].pc = "done"
        /\ ex[e].message = "unauthorized"


\* no price lookup of the list reached the price source
NoPriceContact(lookups) == \A k \in 1..Len(lookups) : ~lookups[k].contacted

\* C28: with test_mode on, whatever passes and copy-trade requests were run,
\* no collaborator was contacted: not the pair source, not the position
\* source, not the price source, not the trade sink (no slippage write, no
\* leg); every snapshot is empty and no alert was sent
C28_TestModeContactsNobody ==
    test_mode =>
        /\ ~fetch_pairs.contacted
        /\ \A k \in 1..Len(fetch_log) : ~fetch_log[k].contacted
        /\ \A p \in PairIndexes : NoPriceContact(price_log[p])
        /\ \A e \in Execs :
              /\ NoPriceContact(ex[e].price_calls)
              /\ ex[e].slippage_writes = << >>
              /\ ex[e].submitted = << >>
        /\ slippage = None
        /\ positions = << >>
        /\ snapshot = << >>
        /\ alerts = << >>

\* test mode, two traders tracked: a pass went to its sleep and a copy-trade
\* request of the allowed chat ended after its two price lookups
C28_Witness ==
    /\ test_mode
    /\ Len(fetch_log) = 2
    /\ mon_pc = "sleep"
    /\ \E e \in Execs :
          /\ ex[e].pc = "done"
          /\ ex[e].chat = AllowedChat
          /\ Len(ex[e].price_calls) = 2

====
